---- MODULE Spec2Model ----
(***************************************************************************)
(* form-courier: the contact-form intake pipeline (HandleContact) and the  *)
(* token-bucket rate limiter (Allow) it depends on.                        *)
(*                                                                         *)
(* Time is counted in ticks; TicksPerMinute ticks make one minute, so that *)
(* the truncation of time.Duration.Minutes() to an int is observable.      *)
(* Strings whose characters matter (site keys, client addresses, bucket    *)
(* keys) are sequences of one-character strings.                           *)
(***************************************************************************)
EXTENDS Integers, Sequences, FiniteSets, TLC

\* ---------------------------------------------------------------- bounds
NumProcs == 2
MaxCalls == 4
MaxMinutes == 2
TicksPerMinute == 2
MaxBurst == 2
MaxRefillMinutes == 2
MaxRequests == 3
MaxDeviations == 3

Procs == 1..NumProcs
MaxClock == MaxMinutes * TicksPerMinute
NoOwner == 0
NoBucket == [tokens |-> -1, ts |-> -1]

\* ------------------------------------------------------- limiter inputs
\* Site keys and client addresses handed to Allow.  SITES entries and the
\* first X-Forwarded-For entry are free text, '|' included.
SiteKeys == { <<"a">>, <<"a", "|", "b">> }
ClientIPs == { <<"c">>, <<"b", "|", "c">> }
Pairs == { <<s, i>> : s \in SiteKeys, i \in ClientIPs } \ { << <<"a", "|", "b">>, <<"b", "|", "c">> >> }

VARIABLES
    conf,       \* *Config: RateBurst, RateRefillMinutes (read-only after load)
    buckets,    \* map[string]*Bucket
    bucketsMu,  \* sync.Mutex: the process holding it, or NoOwner
    clock,      \* the value time.Now() returns
    pc,         \* per process: position in Allow
    frame,      \* per process: Allow's parameters and locals
    stat,       \* per bucket key: who created it and when, calls and admissions
    seqBuckets, \* the bucket map of the sequential execution in lock order
    calls,      \* number of Allow calls started
    req,        \* *http.Request being handled by HandleContact
    hpc,        \* HandleContact's position: the pipeline state about to run
    loc,        \* HandleContact's locals: cs, ip, body, p
    resp,       \* http.ResponseWriter: status, headers, body
    trace,      \* pipeline states run for the current request
    sends,      \* sendEmailFunc invocations for the current request
    mail,       \* *email.Email last handed to sendEmailFunc
    served,     \* requests received so far
    mails,      \* sendEmailFunc invocations so far
    steady,     \* every request so far was ValidPost and every send succeeded
    devs        \* departures from the reference scenario spent so far

lvars == <<conf, buckets, bucketsMu, clock, pc, frame, stat, seqBuckets, calls>>
hvars == <<req, hpc, loc, resp, trace, sends, mail, served, mails, steady, devs>>
vars == <<conf, buckets, bucketsMu, clock, pc, frame, stat, seqBuckets, calls,
          req, hpc, loc, resp, trace, sends, mail, served, mails, steady, devs>>

\* ------------------------------------------------------------- helpers
Min(a, b) == IF a <= b THEN a ELSE b
Max(a, b) == IF a >= b THEN a ELSE b
Bit(b) == IF b THEN 1 ELSE 0

\* int(x) of a float: truncation toward zero
TruncDiv(a, b) == IF a >= 0 THEN a \div b ELSE -((-a) \div b)

\* key := site + "|" + ip
BucketKey(site, ip) == site \o <<"|">> \o ip

RefillsPerTick(now, ts, refillMins) == now - ts

RefillsReversed(now, ts, refillMins) == TruncDiv(ts - now, TicksPerMinute)

\* refills := int(now.Sub(b.ts).Minutes())   (refillMins is not used)
Refills(now, ts, refillMins) == TruncDiv(now - ts, TicksPerMinute)

RefilledUnguarded(b, now, burst, refillMins) ==
    LET refills == Refills(now, b.ts, refillMins) IN
    [tokens |-> Min(b.tokens + refills, burst), ts |-> now]

RefilledStamped(b, now, burst, refillMins) ==
    LET refills == Refills(now, b.ts, refillMins) IN
    IF refills > 0
    THEN [tokens |-> Min(b.tokens + refills, burst), ts |-> now]
    ELSE [b EXCEPT !.ts = Max(now, b.ts)]

RefilledUncapped(b, now, burst, refillMins) ==
    LET refills == Refills(now, b.ts, refillMins) IN
    IF refills > 0
    THEN [tokens |-> b.tokens + refills, ts |-> now]
    ELSE b

\* if refills > 0 { b.tokens += refills; if b.tokens > burst {...}; b.ts = now }
Refilled(b, now, burst, refillMins) ==
    LET refills == Refills(now, b.ts, refillMins) IN
    IF refills > 0
    THEN [tokens |-> Min(b.tokens + refills, burst), ts |-> now]
    ELSE b

\* buckets[key] = v
Put(bs, key, v) == [k \in (DOMAIN bs) \cup {key} |-> IF k = key THEN v ELSE bs[k]]

NewBucketConsumed(burst, now) == [tokens |-> burst - 1, ts |-> now]

\* &Bucket{tokens: burst, ts: now}
NewBucket(burst, now) == [tokens |-> burst, ts |-> now]

\* Allow's critical section run without interruption on bucket map bs
AllowSeq(bs, key, now, burst, refillMins) ==
    IF key \notin DOMAIN bs
    THEN [buckets |-> Put(bs, key, NewBucket(burst, now)), ok |-> TRUE]
    ELSE LET b == Refilled(bs[key], now, burst, refillMins) IN
         IF b.tokens <= 0
         THEN [buckets |-> Put(bs, key, b), ok |-> FALSE]
         ELSE [buckets |-> Put(bs, key, [b EXCEPT !.tokens = b.tokens - 1]), ok |-> TRUE]

IdleFrame ==
    [site |-> <<>>, ip |-> <<>>, burst |-> 0, refillMins |-> 0, key |-> <<>>,
     now |-> 0, pre |-> NoBucket, ok |-> FALSE, seqOk |-> FALSE]

\* ---------------------------------------------------------------- Init
NoReq == [method |-> "none"]
NoResp == [status |-> 0, header |-> <<>>, body |-> ""]
NoLoc == [cs |-> <<>>, ip |-> <<>>, body |-> 0, allowed |-> "unasked", err |-> FALSE,
          p |-> [Name |-> <<>>, Email |-> <<>>, Message |-> <<>>, Website |-> <<>>]]
NoMail == [cs |-> <<>>, From |-> "", To |-> <<>>, ReplyTo |-> <<>>, Subject |-> <<>>,
           Text |-> [Site |-> <<>>, Name |-> <<>>, Email |-> <<>>, IP |-> <<>>,
                     Message |-> <<>>]]

\* conf as setupTestConfig builds it, with the sites of SITES
BaseConf ==
    [RateBurst |-> 1, RateRefillMinutes |-> 10, AllowJSON |-> TRUE, AllowForm |-> TRUE,
     MaxBodyKB |-> 1024,
     Sites |-> [k \in SiteKeys |->
                  [Key |-> k,
                   To |-> IF k = <<"a">> THEN "ops@a" ELSE "ops@ab",
                   AllowedOrigins |-> IF k = <<"a">> THEN <<>> ELSE <<"https://x">>,
                   SubjectPrefix |-> IF k = <<"a">> THEN <<"[Contact]">>
                                     ELSE <<" ", "[ab]", " ">>,
                   Secret |-> IF k = <<"a">> THEN "" ELSE "k1",
                   FromAddr |-> "noreply@x"]]]

InitCommon ==
    /\ buckets = <<>>
    /\ bucketsMu = NoOwner
    /\ clock = 0
    /\ pc = [p \in Procs |-> "idle"]
    /\ frame = [p \in Procs |-> IdleFrame]
    /\ stat = <<>>
    /\ seqBuckets = <<>>
    /\ calls = 0
    /\ req = NoReq
    /\ hpc = "none"
    /\ loc = NoLoc
    /\ resp = NoResp
    /\ trace = <<>>
    /\ sends = 0
    /\ mail = NoMail
    /\ served = 0
    /\ mails = 0
    /\ steady = TRUE

\* the fields in which record r differs from record base
Departures(r, base) == Cardinality({ f \in DOMAIN base : r[f] # base[f] })

\* RATE_LIMIT_BURST and RATE_LIMIT_REFILL_MINUTES as the deployment sets them
Init ==
    /\ conf \in { [BaseConf EXCEPT !.RateBurst = b, !.RateRefillMinutes = r] :
                      b \in 0..MaxBurst, r \in 1..MaxRefillMinutes }
    /\ devs = 0
    /\ InitCommon

\* ------------------------------------------------------------- actions
\* time passes
Tick ==
    /\ clock < MaxClock
    /\ clock' = clock + 1
    /\ UNCHANGED <<conf, buckets, bucketsMu, pc, frame, stat, seqBuckets, calls>>

\* Allow(site, ip, burst, refillMins): key := site + "|" + ip; now := time.Now()
AllowEnter(p, site, ip) ==
    /\ pc[p] = "idle"
    /\ calls < MaxCalls
    /\ calls' = calls + 1
    /\ frame' = [frame EXCEPT ![p] =
                    [IdleFrame EXCEPT !.site = site, !.ip = ip,
                                      !.burst = conf.RateBurst,
                                      !.refillMins = conf.RateRefillMinutes,
                                      !.key = BucketKey(site, ip),
                                      !.now = clock]]
    /\ pc' = [pc EXCEPT ![p] = "lock"]
    /\ UNCHANGED <<conf, buckets, bucketsMu, clock, stat, seqBuckets>>

MutexIgnored == TRUE

\* bucketsMu.Lock() returns only while no other goroutine holds the mutex
MutexFree == bucketsMu = NoOwner

\* bucketsMu.Lock()
AllowLock(p) ==
    /\ pc[p] = "lock"
    /\ MutexFree
    /\ bucketsMu' = p
    /\ LET f == frame[p]
           s == AllowSeq(seqBuckets, f.key, f.now, f.burst, f.refillMins) IN
       /\ seqBuckets' = s.buckets
       /\ frame' = [frame EXCEPT ![p].seqOk = s.ok,
                                 ![p].pre = IF f.key \in DOMAIN buckets
                                            THEN buckets[f.key] ELSE NoBucket]
    /\ pc' = [pc EXCEPT ![p] = "lookup"]
    /\ UNCHANGED <<conf, buckets, clock, stat, calls>>

\* b, ok := buckets[key]; if !ok
AllowLookup(p) ==
    /\ pc[p] = "lookup"
    /\ pc' = [pc EXCEPT ![p] = IF frame[p].key \in DOMAIN buckets
                               THEN "refill" ELSE "create"]
    /\ UNCHANGED <<conf, buckets, bucketsMu, clock, frame, stat, seqBuckets, calls>>

\* buckets[key] = &Bucket{tokens: burst, ts: now}; return true
AllowCreate(p) ==
    /\ pc[p] = "create"
    /\ buckets' = Put(buckets, frame[p].key, NewBucket(frame[p].burst, frame[p].now))
    /\ frame' = [frame EXCEPT ![p].ok = TRUE]
    /\ pc' = [pc EXCEPT ![p] = "unlock"]
    /\ UNCHANGED <<conf, bucketsMu, clock, stat, seqBuckets, calls>>

\* refills := ...; if refills > 0 { ... }
AllowRefill(p) ==
    /\ pc[p] = "refill"
    /\ LET f == frame[p] IN
       buckets' = [buckets EXCEPT ![f.key] =
                      Refilled(buckets[f.key], f.now, f.burst, f.refillMins)]
    /\ pc' = [pc EXCEPT ![p] = "check"]
    /\ UNCHANGED <<conf, bucketsMu, clock, frame, stat, seqBuckets, calls>>

\* if b.tokens <= 0 { return false }
AllowCheck(p) ==
    /\ pc[p] = "check"
    /\ IF buckets[frame[p].key].tokens <= 0
       THEN /\ frame' = [frame EXCEPT ![p].ok = FALSE]
            /\ pc' = [pc EXCEPT ![p] = "unlock"]
       ELSE /\ frame' = frame
            /\ pc' = [pc EXCEPT ![p] = "dec"]
    /\ UNCHANGED <<conf, buckets, bucketsMu, clock, stat, seqBuckets, calls>>

\* b.tokens--; return true
AllowDec(p) ==
    /\ pc[p] = "dec"
    /\ buckets' = [buckets EXCEPT ![frame[p].key].tokens = @ - 1]
    /\ frame' = [frame EXCEPT ![p].ok = TRUE]
    /\ pc' = [pc EXCEPT ![p] = "unlock"]
    /\ UNCHANGED <<conf, bucketsMu, clock, stat, seqBuckets, calls>>

\* bookkeeping of a returning call: the first call on a key records the
\* (site, ip) pair and the time of creation, every call is counted, the
\* pairs admitted on the key are collected and the latest timestamp of a
\* call on the key is kept
Counted(st, f) ==
    IF f.key \in DOMAIN st
    THEN [st EXCEPT ![f.key].calls = @ + 1,
                    ![f.key].admits = @ + (IF f.ok THEN 1 ELSE 0),
                    ![f.key].pairs = @ \cup (IF f.ok THEN {<<f.site, f.ip>>} ELSE {}),
                    ![f.key].latest = Max(@, f.now)]
    ELSE Put(st, f.key, [site |-> f.site, ip |-> f.ip, created |-> f.now, latest |-> f.now,
                         calls |-> 1, admits |-> IF f.ok THEN 1 ELSE 0,
                         pairs |-> IF f.ok THEN {<<f.site, f.ip>>} ELSE {}])

\* defer bucketsMu.Unlock(); the call returns frame[p].ok
AllowUnlock(p) ==
    /\ pc[p] = "unlock"
    /\ bucketsMu' = NoOwner
    /\ stat' = Counted(stat, frame[p])
    /\ frame' = [frame EXCEPT ![p] = IdleFrame]
    /\ pc' = [pc EXCEPT ![p] = "idle"]
    /\ UNCHANGED <<conf, buckets, clock, seqBuckets, calls>>

AllowStep(p) ==
    \/ AllowLock(p)
    \/ AllowLookup(p)
    \/ AllowCreate(p)
    \/ AllowRefill(p)
    \/ AllowCheck(p)
    \/ AllowDec(p)
    \/ AllowUnlock(p)

\* concurrent goroutines calling Allow
NextAllow ==
    \/ Tick /\ UNCHANGED hvars
    \/ \E p \in Procs, pr \in Pairs : AllowEnter(p, pr[1], pr[2]) /\ UNCHANGED hvars
    \/ \E p \in Procs : AllowStep(p) /\ UNCHANGED hvars

SpecAllow == Init /\ [][NextAllow]_vars

\* ============================================================ HandleContact
\* the goroutine serving HTTP requests
Handler == CHOOSE p \in Procs : \A q \in Procs : p <= q

\* ------------------------------------------------------- string helpers
SetMin(S) == CHOOSE x \in S : \A y \in S : x <= y
SetMax(S) == CHOOSE x \in S : \A y \in S : x >= y

\* strings.TrimSpace
TrimSpace(s) ==
    LET idx == { i \in 1..Len(s) : s[i] # " " } IN
    IF idx = {} THEN <<>> ELSE SubSeq(s, SetMin(idx), SetMax(idx))

\* strings.HasPrefix
HasPrefix(s, pre) == Len(s) >= Len(pre) /\ SubSeq(s, 1, Len(pre)) = pre

\* strings.TrimPrefix
TrimPrefix(s, pre) == IF HasPrefix(s, pre) THEN SubSeq(s, Len(pre) + 1, Len(s)) ELSE s

\* strings.ContainsRune
ContainsRune(s, c) == \E i \in 1..Len(s) : s[i] = c

\* strings.Split(s, sep)[0]
FirstPart(s, sep) ==
    LET idx == { i \in 1..Len(s) : s[i] = sep } IN
    IF idx = {} THEN s ELSE SubSeq(s, 1, SetMin(idx) - 1)

\* host, _, _ := net.SplitHostPort(addr)
SplitHost(addr) ==
    LET idx == { i \in 1..Len(addr) : addr[i] = ":" } IN
    IF idx = {} THEN <<>> ELSE SubSeq(addr, 1, SetMax(idx) - 1)

\* emailRegex = ^[^@\s]+@[^@\s]+\.[^@\s]+$
EmailMatches(e) ==
    \E i \in 2..Len(e) :
        /\ e[i] = "@"
        /\ \A j \in 1..Len(e) : j # i => e[j] \notin {"@", " "}
        /\ \E d \in (i + 2)..(Len(e) - 1) : e[d] = "."

\* ------------------------------------------------------------- requests
ContactPrefix == <<"/v1/contact/">>
NoSig == [key |-> "", over |-> "", upper |-> FALSE]
CtJSON == <<"application/json">>
CtJSONCharset == <<"application/json", "; charset=utf-8">>
CtForm == <<"application/x-www-form-urlencoded">>
CtText == <<"text/plain">>
SmallBody == 58

\* TestHandleContactJSONSuccess: a valid JSON POST for site "a", unsigned
ValidPost ==
    [method |-> "POST", path |-> ContactPrefix \o <<"a">>, origin |-> "",
     xff |-> <<>>, remote |-> <<"c", ":", "9">>,
     bodyLen |-> SmallBody, readErr |-> FALSE, enc |-> "json",
     name |-> <<"A", "l">>, email |-> <<"a", "@", "b", ".", "c">>,
     message |-> <<"h", "i">>, website |-> <<>>,
     ct |-> CtJSON, sig |-> NoSig]

\* single-field departures from ValidPost
Alternatives ==
    { <<"method", "GET">>, <<"method", "OPTIONS">>,
      <<"path", ContactPrefix>>,
      <<"path", ContactPrefix \o <<"a", "/", "b">> >>,
      <<"path", ContactPrefix \o <<"A">> >>,
      <<"path", ContactPrefix \o <<"a", "|", "b">> >>,
      <<"path", ContactPrefix \o <<"a", "|">> >>,
      <<"origin", "https://x">>, <<"origin", "https://evil">>,
      <<"xff", <<"c">> >>,
      <<"remote", <<"d", ":", "9">> >>,
      <<"xff", <<" ", "b", "|", "c", " ", ",", "d">> >>,
      <<"bodyLen", 1024 * 1024>>, <<"bodyLen", 1024 * 1024 + 1>>,
      <<"bodyLen", 1024 * 1024 + 2>>,
      <<"readErr", TRUE>>,
      <<"enc", "form">>, <<"enc", "bad">>,
      <<"name", <<>> >>,
      <<"email", <<"a", "@", "b">> >>,
      <<"message", <<" ">> >>,
      <<"message", <<"+", " ", "\"">> >>,
      <<"website", <<"x">> >>,
      <<"ct", CtForm>>, <<"ct", CtText>>, <<"ct", CtJSONCharset>>,
      <<"sig", [key |-> "k1", over |-> "self", upper |-> FALSE]>>,
      <<"sig", [key |-> "k1", over |-> "self", upper |-> TRUE]>>,
      <<"sig", [key |-> "k2", over |-> "self", upper |-> FALSE]>>,
      <<"sig", [key |-> "k1", over |-> "other", upper |-> FALSE]>> }

RECURSIVE Deviate(_, _)
Deviate(S, k) ==
    IF k = 0 THEN S
    ELSE Deviate(S \cup { [r EXCEPT ![a[1]] = a[2]] : r \in S, a \in Alternatives }, k - 1)

\* the requests a client sends: ValidPost changed in at most k fields
Requests == [k \in 0..MaxDeviations |-> Deviate({ValidPost}, k)]

\* a form value as a client writes it: ' ' as '+', '+' as %2B
FormEscape(v) ==
    [i \in 1..Len(v) |-> IF v[i] = " " THEN "+" ELSE IF v[i] = "+" THEN "%2B" ELSE v[i]]

FormUnescapeRaw(w) == w

\* r.ParseForm: url.QueryUnescape of each value, '+' to ' ', %2B to '+'
FormUnescape(w) ==
    [i \in 1..Len(w) |-> IF w[i] = "+" THEN " " ELSE IF w[i] = "%2B" THEN "+" ELSE w[i]]

\* a JSON string as a client writes it: '"' as \"
JSONQuote(v) == [i \in 1..Len(v) |-> IF v[i] = "\"" THEN "\\\"" ELSE v[i]]

\* json Decode of a string: \" to '"'
JSONUnquote(w) == [i \in 1..Len(w) |-> IF w[i] = "\\\"" THEN "\"" ELSE w[i]]

\* a field value in the encoding of the body
Encoded(enc, v) ==
    IF enc = "json" THEN JSONQuote(v) ELSE IF enc = "form" THEN FormEscape(v) ELSE v

\* the bytes of r.Body, as far as the handler can tell them apart
Body(r) == [len |-> r.bodyLen, enc |-> r.enc,
            name |-> Encoded(r.enc, r.name), email |-> Encoded(r.enc, r.email),
            message |-> Encoded(r.enc, r.message), website |-> Encoded(r.enc, r.website)]

\* a hex string: the digest of body under key, or the empty string
EmptyHex == [body |-> [len |-> 0, enc |-> "", name |-> <<>>, email |-> <<>>,
                       message |-> <<>>, website |-> <<>>],
             key |-> "", upper |-> FALSE, empty |-> TRUE]

\* r.Header.Get("X-Signature"): hex of an HMAC over the body, or over a body
\* one byte longer, under the key the client holds
HexSig(r) ==
    IF r.sig = NoSig THEN EmptyHex
    ELSE [body |-> IF r.sig.over = "self" THEN Body(r)
                   ELSE [Body(r) EXCEPT !.len = @ + 1],
          key |-> r.sig.key, upper |-> r.sig.upper, empty |-> FALSE]

\* strings.ToLower of a hex string
ToLower(h) == [h EXCEPT !.upper = FALSE]

\* hex.EncodeToString(hmac(body, secret))
HexHmac(body, secret) == [body |-> body, key |-> secret, upper |-> FALSE, empty |-> FALSE]

verifyHMACKeyOnly(body, secret, hexSig) ==
    IF secret = "" \/ hexSig = EmptyHex THEN FALSE
    ELSE hexSig.key = secret

\* verifyHMAC(body, secret, hexSig)
verifyHMAC(body, secret, hexSig) ==
    IF secret = "" \/ hexSig = EmptyHex THEN FALSE
    ELSE ToLower(HexHmac(body, secret)) = ToLower(hexSig)

clientIPPeerFirst(r) ==
    IF SplitHost(r.remote) # <<>> THEN SplitHost(r.remote)
    ELSE TrimSpace(FirstPart(r.xff, ","))

\* clientIP(r)
clientIP(r) ==
    IF r.xff # <<>> THEN TrimSpace(FirstPart(r.xff, ",")) ELSE SplitHost(r.remote)

\* ContactRequest
Submission(r) == [Name |-> r.name, Email |-> r.email, Message |-> r.message,
                  Website |-> r.website]
EmptySubmission == [Name |-> <<>>, Email |-> <<>>, Message |-> <<>>, Website |-> <<>>]
DecodeError == [Name |-> <<"error">>, Email |-> <<>>, Message |-> <<>>, Website |-> <<>>]

\* json.NewDecoder(r.Body).Decode(&p)
DecodeJSON(r) ==
    IF r.enc = "json"
    THEN [Name |-> JSONUnquote(Body(r).name), Email |-> JSONUnquote(Body(r).email),
          Message |-> JSONUnquote(Body(r).message), Website |-> JSONUnquote(Body(r).website)]
    ELSE DecodeError

\* r.ParseForm() and r.Form.Get: the body is parsed only under the
\* form-urlencoded media type; a JSON text is a query string without the
\* four keys; the URL carries no query
DecodeForm(r) ==
    IF r.ct[1] # CtForm[1] THEN EmptySubmission
    ELSE IF r.enc = "form"
    THEN [Name |-> FormUnescape(Body(r).name), Email |-> FormUnescape(Body(r).email),
          Message |-> FormUnescape(Body(r).message), Website |-> FormUnescape(Body(r).website)]
    ELSE IF r.enc = "json" THEN EmptySubmission
    ELSE DecodeError

InvalidSubmissionNoHoneypot(p) ==
    \/ p.Name = <<>>
    \/ ~EmailMatches(p.Email)
    \/ TrimSpace(p.Message) = <<>>

\* the Honeypot & validation condition
InvalidSubmission(p) ==
    \/ p.Website # <<>>
    \/ p.Name = <<>>
    \/ ~EmailMatches(p.Email)
    \/ TrimSpace(p.Message) = <<>>

ComposeUntrimmed(cs, p, ip) ==
    [cs |-> cs.Key,
     From |-> cs.FromAddr, To |-> <<cs.To>>, ReplyTo |-> <<p.Name, p.Email>>,
     Subject |-> cs.SubjectPrefix \o <<" ", "New contact">>,
     Text |-> [Site |-> cs.Key, Name |-> p.Name, Email |-> p.Email, IP |-> ip,
               Message |-> p.Message]]

\* the arguments of sendEmailFunc: cs (by its key) and the composed
\* *email.Email, subject := strings.TrimSpace(cs.SubjectPrefix + " New contact")
Compose(cs, p, ip) ==
    [cs |-> cs.Key,
     From |-> cs.FromAddr, To |-> <<cs.To>>, ReplyTo |-> <<p.Name, p.Email>>,
     Subject |-> TrimSpace(cs.SubjectPrefix \o <<" ", "New contact">>),
     Text |-> [Site |-> cs.Key, Name |-> p.Name, Email |-> p.Email, IP |-> ip,
               Message |-> p.Message]]

\* http.Error(w, msg, code)
Error(w, msg, code) ==
    [status |-> code, body |-> msg,
     header |-> Put(w.header, "Content-Type", "text/plain; charset=utf-8")]

\* ------------------------------------------------------ pipeline actions
PipelineNoValidate ==
    <<"Preflight", "MethodCheck", "TenantResolution", "OriginPolicy", "Admission",
      "BodyCapture", "Authentication", "Decode", "Deliver", "Success">>

PipelineAuthFirst ==
    <<"Preflight", "MethodCheck", "TenantResolution", "OriginPolicy", "Admission",
      "Authentication", "BodyCapture", "Decode", "Validate", "Deliver", "Success">>

PipelineTenantFirst ==
    <<"TenantResolution", "Preflight", "MethodCheck", "OriginPolicy", "Admission",
      "BodyCapture", "Authentication", "Decode", "Validate", "Deliver", "Success">>

PipelineAdmissionFirst ==
    <<"Preflight", "MethodCheck", "Admission", "TenantResolution", "OriginPolicy",
      "BodyCapture", "Authentication", "Decode", "Validate", "Deliver", "Success">>

\* the order in which HandleContact runs its states
Pipeline == <<"Preflight", "MethodCheck", "TenantResolution", "OriginPolicy",
              "Admission", "BodyCapture", "Authentication", "Decode", "Validate",
              "Deliver", "Success">>

\* the state following st in the handler's text
After(st) == Pipeline[(CHOOSE i \in 1..Len(Pipeline) : Pipeline[i] = st) + 1]

\* a request arrives at HandleContact
Receive(r) ==
    /\ hpc = "none"
    /\ served < MaxRequests
    /\ calls < MaxCalls
    /\ devs' = devs + Departures(r, ValidPost)
    /\ req' = r
    /\ hpc' = Pipeline[1]
    /\ loc' = NoLoc
    /\ resp' = NoResp
    /\ trace' = <<>>
    /\ sends' = 0
    /\ mail' = NoMail
    /\ served' = served + 1
    /\ steady' = (steady /\ r = ValidPost)
    /\ UNCHANGED mails
    /\ UNCHANGED lvars

TerminalNoReturn(st, w) ==
    /\ resp' = w
    /\ hpc' = IF st = "Success" THEN "done" ELSE After(st)
    /\ trace' = Append(trace, st)

\* a state st ran and rejected (or answered) the request
Terminal(st, w) ==
    /\ resp' = w
    /\ hpc' = "done"
    /\ trace' = Append(trace, st)

\* a state st ran and passed the request on
Continue(st) ==
    /\ hpc' = After(st)
    /\ trace' = Append(trace, st)

\* if r.Method == http.MethodOptions
HPreflight ==
    /\ hpc = "Preflight"
    /\ IF req.method = "OPTIONS"
       THEN Terminal("Preflight",
                [status |-> 204, body |-> "",
                 header |-> Put(Put(resp.header, "Access-Control-Allow-Methods", "POST, OPTIONS"),
                                "Access-Control-Allow-Headers", "Content-Type, X-Signature")])
       ELSE Continue("Preflight") /\ UNCHANGED resp
    /\ UNCHANGED <<req, loc, sends, mail, served, mails, steady, devs>>
    /\ UNCHANGED lvars

\* if r.Method != http.MethodPost
HMethodCheck ==
    /\ hpc = "MethodCheck"
    /\ IF req.method # "POST"
       THEN Terminal("MethodCheck", Error(resp, "method not allowed", 405))
       ELSE Continue("MethodCheck") /\ UNCHANGED resp
    /\ UNCHANGED <<req, loc, sends, mail, served, mails, steady, devs>>
    /\ UNCHANGED lvars

HTenantResolutionPrefix ==
    /\ hpc = "TenantResolution"
    /\ LET siteKey == TrimPrefix(req.path, ContactPrefix)
           cands == { c \in DOMAIN conf.Sites : HasPrefix(c, siteKey) } IN
       IF siteKey = <<>> \/ ContainsRune(siteKey, "/")
       THEN Terminal("TenantResolution", Error(resp, "bad site key", 400)) /\ UNCHANGED loc
       ELSE IF cands = {}
       THEN Terminal("TenantResolution", Error(resp, "unknown site", 404)) /\ UNCHANGED loc
       ELSE /\ Continue("TenantResolution")
            /\ loc' = [loc EXCEPT !.cs = CHOOSE c \in cands : \A d \in cands : Len(c) >= Len(d)]
            /\ UNCHANGED resp
    /\ UNCHANGED <<req, sends, mail, served, mails, steady, devs>>
    /\ UNCHANGED lvars

\* siteKey := strings.TrimPrefix(...); cs, ok := cfg.Sites[siteKey]
HTenantResolution ==
    /\ hpc = "TenantResolution"
    /\ LET siteKey == TrimPrefix(req.path, ContactPrefix) IN
       IF siteKey = <<>> \/ ContainsRune(siteKey, "/")
       THEN Terminal("TenantResolution", Error(resp, "bad site key", 400)) /\ UNCHANGED loc
       ELSE IF siteKey \notin DOMAIN conf.Sites
       THEN Terminal("TenantResolution", Error(resp, "unknown site", 404)) /\ UNCHANGED loc
       ELSE /\ Continue("TenantResolution")
            /\ loc' = [loc EXCEPT !.cs = siteKey]
            /\ UNCHANGED resp
    /\ UNCHANGED <<req, sends, mail, served, mails, steady, devs>>
    /\ UNCHANGED lvars

HOriginPolicyRejecting ==
    /\ hpc = "OriginPolicy"
    /\ LET ao == conf.Sites[loc.cs].AllowedOrigins IN
       IF Len(ao) > 0 /\ \E i \in 1..Len(ao) : req.origin = ao[i]
       THEN /\ resp' = [resp EXCEPT !.header =
                           Put(Put(resp.header, "Access-Control-Allow-Origin", req.origin),
                               "Vary", "Origin")]
            /\ Continue("OriginPolicy")
       ELSE IF Len(ao) > 0
       THEN Terminal("OriginPolicy", Error(resp, "forbidden", 403))
       ELSE Continue("OriginPolicy") /\ UNCHANGED resp
    /\ UNCHANGED <<req, loc, sends, mail, served, mails, steady, devs>>
    /\ UNCHANGED lvars

\* CORS for that site (exact match)
HOriginPolicy ==
    /\ hpc = "OriginPolicy"
    /\ LET ao == conf.Sites[loc.cs].AllowedOrigins IN
       IF Len(ao) > 0 /\ \E i \in 1..Len(ao) : req.origin = ao[i]
       THEN resp' = [resp EXCEPT !.header =
                        Put(Put(resp.header, "Access-Control-Allow-Origin", req.origin),
                            "Vary", "Origin")]
       ELSE UNCHANGED resp
    /\ Continue("OriginPolicy")
    /\ UNCHANGED <<req, loc, sends, mail, served, mails, steady, devs>>
    /\ UNCHANGED lvars

\* ip := clientIP(r); Allow(siteKey, ip, cfg.RateBurst, cfg.RateRefillMinutes) is entered
HAdmission ==
    /\ hpc = "Admission"
    /\ AllowEnter(Handler, loc.cs, clientIP(req))
    /\ loc' = [loc EXCEPT !.ip = clientIP(req)]
    /\ trace' = Append(trace, "Admission")
    /\ UNCHANGED <<req, hpc, resp, sends, mail, served, mails, steady, devs>>

\* Allow runs
HAllow ==
    /\ hpc = "Admission"
    /\ \/ AllowLock(Handler)
       \/ AllowLookup(Handler)
       \/ AllowCreate(Handler)
       \/ AllowRefill(Handler)
       \/ AllowCheck(Handler)
       \/ AllowDec(Handler)
    /\ UNCHANGED hvars

AdmissionOutcomeIgnored(ok) ==
    hpc' = After("Admission") /\ UNCHANGED resp

\* if !Allow(...) { http.Error(w, "rate limited", 429); return }
AdmissionOutcome(ok) ==
    IF ok
    THEN hpc' = After("Admission") /\ UNCHANGED resp
    ELSE hpc' = "done" /\ resp' = Error(resp, "rate limited", 429)

\* Allow returns to HandleContact
HAdmitted ==
    /\ hpc = "Admission"
    /\ pc[Handler] = "unlock"
    /\ AdmissionOutcome(frame[Handler].ok)
    /\ loc' = [loc EXCEPT !.allowed = IF frame[Handler].ok THEN "admitted" ELSE "denied"]
    /\ AllowUnlock(Handler)
    /\ UNCHANGED <<req, trace, sends, mail, served, mails, steady, devs>>

HBodyCaptureInclusive ==
    /\ hpc = "BodyCapture"
    /\ LET maxBytes == conf.MaxBodyKB * 1024
           n == Min(req.bodyLen, maxBytes) IN
       /\ loc' = [loc EXCEPT !.body = n]
       /\ IF req.readErr
          THEN Terminal("BodyCapture", Error(resp, "read error", 400))
          ELSE IF n >= maxBytes
          THEN Terminal("BodyCapture", Error(resp, "payload too large", 413))
          ELSE Continue("BodyCapture") /\ UNCHANGED resp
    /\ UNCHANGED <<req, sends, mail, served, mails, steady, devs>>
    /\ UNCHANGED lvars

\* body, err := io.ReadAll(io.LimitReader(r.Body, int64(maxBytes)+1))
HBodyCapture ==
    /\ hpc = "BodyCapture"
    /\ LET maxBytes == conf.MaxBodyKB * 1024
           n == Min(req.bodyLen, maxBytes + 1) IN
       /\ loc' = [loc EXCEPT !.body = n]
       /\ IF req.readErr
          THEN Terminal("BodyCapture", Error(resp, "read error", 400))
          ELSE IF n > maxBytes
          THEN Terminal("BodyCapture", Error(resp, "payload too large", 413))
          ELSE Continue("BodyCapture") /\ UNCHANGED resp
    /\ UNCHANGED <<req, sends, mail, served, mails, steady, devs>>
    /\ UNCHANGED lvars

\* Optional shared-secret HMAC
HAuthentication ==
    /\ hpc = "Authentication"
    /\ LET secret == conf.Sites[loc.cs].Secret IN
       IF secret # "" /\ ~verifyHMAC(Body(req), secret, HexSig(req))
       THEN Terminal("Authentication", Error(resp, "unauthorized", 401))
       ELSE Continue("Authentication") /\ UNCHANGED resp
    /\ UNCHANGED <<req, loc, sends, mail, served, mails, steady, devs>>
    /\ UNCHANGED lvars

\* switch { case json && cfg.AllowJSON: ... case cfg.AllowForm: ... default: 415 }
HDecode ==
    /\ hpc = "Decode"
    /\ IF HasPrefix(req.ct, CtJSON) /\ conf.AllowJSON
       THEN IF DecodeJSON(req) = DecodeError
            THEN Terminal("Decode", Error(resp, "bad json", 400)) /\ UNCHANGED loc
            ELSE /\ Continue("Decode")
                 /\ loc' = [loc EXCEPT !.p = DecodeJSON(req)]
                 /\ UNCHANGED resp
       ELSE IF conf.AllowForm
       THEN IF DecodeForm(req) = DecodeError
            THEN Terminal("Decode", Error(resp, "bad form", 400)) /\ UNCHANGED loc
            ELSE /\ Continue("Decode")
                 /\ loc' = [loc EXCEPT !.p = DecodeForm(req)]
                 /\ UNCHANGED resp
       ELSE Terminal("Decode", Error(resp, "unsupported content type", 415)) /\ UNCHANGED loc
    /\ UNCHANGED <<req, sends, mail, served, mails, steady, devs>>
    /\ UNCHANGED lvars

HValidateTelling ==
    /\ hpc = "Validate"
    /\ IF InvalidSubmission(loc.p)
       THEN Terminal("Validate",
                Error(resp, IF ~EmailMatches(loc.p.Email) THEN "invalid email"
                            ELSE "invalid submission", 400))
       ELSE Continue("Validate") /\ UNCHANGED resp
    /\ UNCHANGED <<req, loc, sends, mail, served, mails, steady, devs>>
    /\ UNCHANGED lvars

\* Honeypot & validation
HValidate ==
    /\ hpc = "Validate"
    /\ IF InvalidSubmission(loc.p)
       THEN Terminal("Validate", Error(resp, "invalid submission", 400))
       ELSE Continue("Validate") /\ UNCHANGED resp
    /\ UNCHANGED <<req, loc, sends, mail, served, mails, steady, devs>>
    /\ UNCHANGED lvars

DeliverOutcomeIgnored(err) ==
    Continue("Deliver") /\ UNCHANGED resp

\* if err != nil { http.Error(w, "failed to send", 500); return }
DeliverOutcome(err) ==
    IF err
    THEN Terminal("Deliver", Error(resp, "failed to send", 500))
    ELSE Continue("Deliver") /\ UNCHANGED resp

\* Compose email; err := sendEmailFunc(cs, e)
HDeliver(err) ==
    /\ hpc = "Deliver"
    /\ mail' = Compose(conf.Sites[loc.cs], loc.p, loc.ip)
    /\ sends' = sends + 1
    /\ mails' = mails + 1
    /\ steady' = (steady /\ ~err)
    /\ err => devs < MaxDeviations
    /\ devs' = devs + Bit(err)
    /\ DeliverOutcome(err)
    /\ loc' = [loc EXCEPT !.err = err]
    /\ UNCHANGED <<req, served>>
    /\ UNCHANGED lvars

\* json.NewEncoder(w).Encode(map[string]any{"ok": true})
HSuccess ==
    /\ hpc = "Success"
    /\ Terminal("Success",
           [status |-> 200, body |-> "{\"ok\":true}",
            header |-> Put(resp.header, "Content-Type", "application/json")])
    /\ UNCHANGED <<req, loc, sends, mail, served, mails, steady, devs>>
    /\ UNCHANGED lvars

HReturnRollback ==
    /\ hpc = "done"
    /\ hpc' = "none"
    /\ req' = NoReq
    /\ loc' = NoLoc
    /\ resp' = NoResp
    /\ trace' = <<>>
    /\ sends' = 0
    /\ mail' = NoMail
    /\ buckets' = IF loc.allowed = "admitted" /\ resp.status # 200
                  THEN [buckets EXCEPT ![BucketKey(loc.cs, loc.ip)].tokens = @ + 1]
                  ELSE buckets
    /\ UNCHANGED <<served, mails, steady, devs>>
    /\ UNCHANGED <<conf, bucketsMu, clock, pc, frame, stat, seqBuckets, calls>>

\* HandleContact has returned and the response is with the client
HReturn ==
    /\ hpc = "done"
    /\ hpc' = "none"
    /\ req' = NoReq
    /\ loc' = NoLoc
    /\ resp' = NoResp
    /\ trace' = <<>>
    /\ sends' = 0
    /\ mail' = NoMail
    /\ UNCHANGED <<served, mails, steady, devs>>
    /\ UNCHANGED lvars

\* a minute passes between two requests
HPause ==
    /\ hpc = "none"
    /\ devs < MaxDeviations
    /\ clock + TicksPerMinute <= MaxClock
    /\ clock' = clock + TicksPerMinute
    /\ devs' = devs + 1
    /\ steady' = FALSE
    /\ UNCHANGED <<conf, buckets, bucketsMu, pc, frame, stat, seqBuckets, calls>>
    /\ UNCHANGED <<req, hpc, loc, resp, trace, sends, mail, served, mails>>

\* settings in which a deployment departs from BaseConf
ConfAlternatives ==
    { <<"RateBurst", 0>>, <<"RateBurst", MaxBurst>>,
      <<"AllowJSON", FALSE>>, <<"AllowForm", FALSE>>,
      <<"Sites", [BaseConf.Sites EXCEPT ![<<"a">>].AllowedOrigins = <<"*">>]>> }

RECURSIVE DeviateConf(_, _)
DeviateConf(S, k) ==
    IF k = 0 THEN S
    ELSE DeviateConf(S \cup { [c EXCEPT ![a[1]] = a[2]] : c \in S, a \in ConfAlternatives }, k - 1)

\* The reference scenario is TestHandleContactRateLimited: ValidPost sent
\* back to back under BaseConf with a sender that succeeds.  A run departs
\* from it in at most MaxDeviations places: settings, request fields, failed
\* sends and pauses of a minute.
InitHandler ==
    /\ conf \in DeviateConf({BaseConf}, MaxDeviations)
    /\ devs = Departures(conf, BaseConf)
    /\ InitCommon

\* requests served one after another by HandleContact
NextHandler ==
    \/ HPause
    \/ \E r \in Requests[MaxDeviations - devs] : Receive(r)
    \/ HPreflight
    \/ HMethodCheck
    \/ HTenantResolution
    \/ HOriginPolicy
    \/ HAdmission
    \/ HAllow
    \/ HAdmitted
    \/ HBodyCapture
    \/ HAuthentication
    \/ HDecode
    \/ HValidate
    \/ \E err \in BOOLEAN : HDeliver(err)
    \/ HSuccess
    \/ HReturn

SpecHandler == InitHandler /\ [][NextHandler]_vars

\* ======================================================= loggingMiddleware
\* a runtime fault while HandleContact runs: before any of its states,
\* between two of them, or after the response was written and before it
\* returns.  Allow releases bucketsMu by defer, so faults are taken outside it.
HPanic ==
    /\ hpc \notin {"none", "panic", "recovered"}
    /\ pc[Handler] = "idle"
    /\ devs < MaxDeviations
    /\ devs' = devs + 1
    /\ hpc' = "panic"
    /\ steady' = FALSE
    /\ UNCHANGED <<req, loc, resp, trace, sends, mail, served, mails>>
    /\ UNCHANGED lvars

WriteHeaderOverwrite(w, status) == [w EXCEPT !.status = status]

\* loggingResponseWriter.WriteHeader: the first status written is the one
\* the client gets
WriteHeader(w, status) == IF w.status = 0 THEN [w EXCEPT !.status = status] ELSE w

\* defer func() { if rec := recover(); rec != nil { ...; lrw.WriteHeader(500) } }
MRecover ==
    /\ hpc = "panic"
    /\ resp' = WriteHeader(resp, 500)
    /\ hpc' = "recovered"
    /\ UNCHANGED <<req, loc, trace, sends, mail, served, mails, steady, devs>>
    /\ UNCHANGED lvars

\* the middleware logs "request completed" and returns; the server goes on
MComplete ==
    /\ hpc = "recovered"
    /\ hpc' = "none"
    /\ req' = NoReq
    /\ loc' = NoLoc
    /\ resp' = NoResp
    /\ trace' = <<>>
    /\ sends' = 0
    /\ mail' = NoMail
    /\ UNCHANGED <<served, mails, steady, devs>>
    /\ UNCHANGED lvars

\* HandleContact behind loggingMiddleware
NextServe ==
    \/ NextHandler
    \/ HPanic
    \/ MRecover
    \/ MComplete

SpecServe == InitHandler /\ [][NextServe]_vars

\* =============================================================== claims
\* A call has its result and still holds the lock: frame[p].pre is the bucket
\* it found (NoBucket if none), buckets[frame[p].key] the bucket it leaves.
Returning(p) == pc[p] = "unlock"

\* the key saw calls only within the first minute after its bucket was made
WithinFirstMinute(k) == clock < stat[k].created + TicksPerMinute

\* C1 (as stated): with no refill in between, exactly the first burst calls
\* on a fresh key are admitted and call burst+1 is denied.
C1_FirstBurstAdmitted ==
    \A k \in DOMAIN stat :
        (conf.RateBurst >= 1 /\ WithinFirstMinute(k))
            => stat[k].admits = Min(stat[k].calls, conf.RateBurst)

\* C1 (amended): while no whole minute has elapsed since the bucket was
\* created, exactly the first burst+1 calls on the key are admitted and
\* every later one is denied.
C1_FirstBurstPlusOneAdmitted ==
    \A k \in DOMAIN stat :
        WithinFirstMinute(k) => stat[k].admits = Min(stat[k].calls, conf.RateBurst + 1)

C1_Witness ==
    \E k \in DOMAIN stat :
        /\ conf.RateBurst >= 1
        /\ WithinFirstMinute(k)
        /\ stat[k].calls = conf.RateBurst + 2
        /\ stat[k].admits = conf.RateBurst + 1

\* C3: on a call that finds a bucket, the tokens added are the whole
\* intervals of refillMins minutes elapsed since lastRefill, capped at burst.
C3_RefillByInterval ==
    \A p \in Procs :
        (Returning(p) /\ frame[p].pre # NoBucket) =>
            LET f == frame[p]
                n == Max(0, TruncDiv(f.now - f.pre.ts, f.refillMins * TicksPerMinute))
            IN buckets[f.key].tokens + Bit(f.ok) = Min(f.pre.tokens + n, f.burst)

\* C4: with burst >= 1, a call arriving at least one full refill interval
\* after the bucket's lastRefill is admitted.
C4_AdmittedAfterInterval ==
    \A p \in Procs :
        LET f == frame[p] IN
        (/\ Returning(p)
         /\ f.burst >= 1
         /\ f.pre # NoBucket
         /\ f.now - f.pre.ts >= f.refillMins * TicksPerMinute) => f.ok

\* a pair that was denied before is admitted one interval after lastRefill
C4_Witness ==
    \E p \in Procs :
        LET f == frame[p] IN
        /\ Returning(p)
        /\ f.burst >= 1
        /\ f.pre # NoBucket
        /\ f.pre.tokens = 0
        /\ f.key \in DOMAIN stat
        /\ stat[f.key].calls > stat[f.key].admits
        /\ f.now - f.pre.ts >= f.refillMins * TicksPerMinute
        /\ f.ok

\* C5: a call for one (site, ip) pair never touches the bucket of another
\* pair: the bucket it finds was created by a call for the same pair.
C5_BucketsIndependent ==
    \A p \in Procs :
        (Returning(p) /\ frame[p].key \in DOMAIN stat) =>
            /\ stat[frame[p].key].site = frame[p].site
            /\ stat[frame[p].key].ip = frame[p].ip

\* C6: every call returns what the sequential execution in lock order
\* returns, and whenever the lock is free the bucket map is the sequential one.
C6_Linearizable ==
    /\ \A p \in Procs : Returning(p) => frame[p].ok = frame[p].seqOk
    /\ bucketsMu = NoOwner => buckets = seqBuckets
    /\ \A p \in Procs : pc[p] \in {"lookup", "create", "refill", "check", "dec", "unlock"}
                            => bucketsMu = p

\* two concurrent first calls on one key: one is returning, the other waits
C6_Witness ==
    \E p, q \in Procs :
        /\ p # q
        /\ Returning(p)
        /\ frame[p].pre = NoBucket
        /\ pc[q] = "lock"
        /\ frame[q].key = frame[p].key
        /\ frame[q].now <= frame[p].now

\* ---------------------------------------------------- HandleContact claims
\* what a request is, told from its fields alone
SiteKeyOf(r) == TrimPrefix(r.path, ContactPrefix)
BadSiteKey(r) == SiteKeyOf(r) = <<>> \/ ContainsRune(SiteKeyOf(r), "/")
KnownSite(r) == SiteKeyOf(r) \in DOMAIN conf.Sites
Oversized(r) == r.bodyLen > conf.MaxBodyKB * 1024
SecretOf(r) == conf.Sites[SiteKeyOf(r)].Secret
Signed(r) == r.sig # NoSig /\ r.sig.key = SecretOf(r) /\ r.sig.over = "self"
Unauthenticated(r) == SecretOf(r) # "" /\ ~Signed(r)
JSONSelected(r) == r.ct[1] = "application/json" /\ conf.AllowJSON
FormSelected(r) == ~JSONSelected(r) /\ conf.AllowForm
Unsupported(r) == ~JSONSelected(r) /\ ~FormSelected(r)
Malformed(r) ==
    \/ JSONSelected(r) /\ r.enc # "json"
    \/ FormSelected(r) /\ r.ct = CtForm /\ r.enc = "bad"
\* the body reached the decoder as the fields the client wrote
FieldsDecoded(r) ==
    \/ JSONSelected(r) /\ r.enc = "json"
    \/ FormSelected(r) /\ r.ct = CtForm /\ r.enc = "form"
FieldsValid(r) ==
    /\ r.website = <<>>
    /\ r.name # <<>>
    /\ EmailMatches(r.email)
    /\ \E i \in 1..Len(r.message) : r.message[i] # " "
Done == hpc = "done"
Ran(st) == \E i \in 1..Len(trace) : trace[i] = st

\* C2: valid JSON POSTs sent back to back from one client to one site that
\* accepts JSON, starting with no bucket: requests 1..burst+1 are answered 200, request burst+2 is
\* answered 429, and the sender ran once per 200.
C2_BackToBack ==
    (steady /\ Done /\ conf.AllowJSON) =>
        /\ resp.status = IF served <= conf.RateBurst + 1 THEN 200 ELSE 429
        /\ mails = Min(served, conf.RateBurst + 1)
        /\ sends = IF resp.status = 200 THEN 1 ELSE 0

\* TestHandleContactRateLimited: 200, 200, 429 and two sends
C2_Witness ==
    /\ steady
    /\ Done
    /\ conf.RateBurst = 1
    /\ conf.RateRefillMinutes = 10
    /\ served = 3
    /\ resp.status = 429
    /\ mails = 2

\* C7: the sender runs only for a POST to a known site that the limiter
\* admitted, whose body is within the ceiling, signed if the site has a
\* secret, decoded and valid.
C7_SendOnlyAfterAllChecks ==
    sends > 0 =>
        /\ req.method = "POST"
        /\ ~BadSiteKey(req)
        /\ KnownSite(req)
        /\ loc.allowed = "admitted"
        /\ ~req.readErr
        /\ ~Oversized(req)
        /\ ~Unauthenticated(req)
        /\ FieldsDecoded(req)
        /\ FieldsValid(req)

\* a signed submission for a site with a secret reached the sender
C7_Witness ==
    /\ sends = 1
    /\ KnownSite(req)
    /\ SecretOf(req) # ""
    /\ req.sig.upper
    /\ mail.Text.Message = req.message

\* the response of the earliest failing state
FirstFailure(r) ==
    IF r.method = "OPTIONS" THEN 204
    ELSE IF r.method # "POST" THEN 405
    ELSE IF BadSiteKey(r) THEN 400
    ELSE IF ~KnownSite(r) THEN 404
    ELSE IF loc.allowed = "denied" THEN 429
    ELSE IF r.readErr THEN 400
    ELSE IF Oversized(r) THEN 413
    ELSE IF Unauthenticated(r) THEN 401
    ELSE IF Unsupported(r) THEN 415
    ELSE IF Malformed(r) THEN 400
    ELSE IF ~(FieldsDecoded(r) /\ FieldsValid(r)) THEN 400
    ELSE IF loc.err THEN 500
    ELSE 200

\* C8: a request failing several checks gets the response of the earliest
\* failing state; a request rejected before Admission never reaches Allow.
C8_EarliestFailureWins ==
    Done =>
        /\ resp.status = FirstFailure(req)
        /\ (req.method # "POST" \/ BadSiteKey(req) \/ ~KnownSite(req))
               => (loc.allowed = "unasked" /\ ~Ran("Admission"))

\* a rate-limited request that is also oversized and fills the honeypot
C8_Witness ==
    /\ Done
    /\ resp.status = 429
    /\ Oversized(req)
    /\ req.website # <<>>

Outcomes == {204, 405, 400, 404, 429, 413, 401, 415, 500, 200}
PipelineIndex(st) == CHOOSE i \in 1..Len(Pipeline) : Pipeline[i] = st

C10_SendOnce ==
    /\ sends <= 1
    /\ sends = 1 <=> (Ran("Deliver") \/ (Done /\ resp.status \in {200, 500}))
    /\ (Done /\ Ran("Deliver")) =>
          /\ (resp.status = 200 /\ resp.body = "{\"ok\":true}") <=> ~loc.err
          /\ resp.status = 500 <=> loc.err
          /\ resp.status \in {200, 500}

\* a failed send answered 500 after one invocation
C10_Witness ==
    /\ Done
    /\ Ran("Deliver")
    /\ loc.err
    /\ resp.status = 500
    /\ sends = 1

\* C11: an admission is never rolled back.  Only the Admission state changes
\* the bucket map, so a token taken for a request that is rejected later
\* stays taken; with requests sent back to back, the client is answered 429
\* once it has made more than burst+1 calls that reached Admission, whatever
\* became of them.
C11_AdmissionNotRolledBack ==
    /\ []((Done /\ Ran("Admission") /\ clock = 0) =>
             LET k == BucketKey(loc.cs, loc.ip) IN
             /\ k \in DOMAIN stat
             /\ (resp.status = 429) <=> (stat[k].calls > conf.RateBurst + 1)
             /\ buckets[k].tokens = Max(conf.RateBurst + 1 - stat[k].calls, 0))
    /\ [][hpc # "Admission" => buckets' = buckets]_vars

\* a client none of whose requests was delivered is answered 429
C11_Witness ==
    /\ Done
    /\ resp.status = 429
    /\ conf.RateBurst >= 1
    /\ served = conf.RateBurst + 2
    /\ mails = 0

\* C12: a request is answered 401 exactly when it reached Authentication,
\* its site has a secret and X-Signature is absent, empty or not the HMAC of
\* the raw body under that secret; a request to a site without a secret is
\* never answered 401, whatever X-Signature it carries.
C12_Unauthorized ==
    /\ Done => ((resp.status = 401) <=> (Ran("Authentication") /\ Unauthenticated(req)))
    /\ (Done /\ resp.status = 401) => resp.body = "unauthorized"
    /\ (Done /\ Ran("OriginPolicy") /\ SecretOf(req) = "") => resp.status # 401

\* a signature made with the right secret over another body is refused
C12_Witness ==
    /\ Done
    /\ resp.status = 401
    /\ req.sig.key = SecretOf(req)
    /\ req.sig.over = "other"

\* name, email and message of the request pass the three field checks
OtherFieldsValid(r) ==
    /\ r.name # <<>>
    /\ EmailMatches(r.email)
    /\ \E i \in 1..Len(r.message) : r.message[i] # " "

\* C13: a submission whose honeypot field (website) is non-empty is never
\* delivered and never answered 200, whatever its other fields and its
\* encoding; when it reaches Validate it is answered 400 invalid submission.
C13_HoneypotRejected ==
    (hpc # "none" /\ req.website # <<>>) =>
        /\ sends = 0
        /\ ~Ran("Deliver")
        /\ Done => resp.status \notin {200, 500}
        /\ (Ran("Validate") /\ FieldsDecoded(req)) => loc.p.Website = req.website
        /\ (Done /\ Ran("Validate")) =>
              (resp.status = 400 /\ resp.body = "invalid submission")

\* a form submission, valid but for the honeypot, is rejected
C13_Witness ==
    /\ Done
    /\ Ran("Validate")
    /\ req.enc = "form"
    /\ FieldsDecoded(req)
    /\ req.website # <<>>
    /\ OtherFieldsValid(req)
    /\ resp.status = 400
    /\ sends = 0

\* the request was rejected by state st
RejectedBy(st) == Done /\ Len(trace) > 0 /\ trace[Len(trace)] = st /\ resp.status # 200

\* C14: the response to a submission that fails validation is the same
\* whichever of the four checks failed: status 400, body "invalid
\* submission", and no header beyond the content type and those Origin
\* Policy set before the submission was read.
C14_UndifferentiatedRejection ==
    RejectedBy("Validate") =>
        /\ resp.status = 400
        /\ resp.body = "invalid submission"
        /\ DOMAIN resp.header \subseteq {"Content-Type", "Access-Control-Allow-Origin", "Vary"}
        /\ resp.header["Content-Type"] = "text/plain; charset=utf-8"

\* a decoded submission failing only the email check
C14_Witness ==
    /\ RejectedBy("Validate")
    /\ FieldsDecoded(req)
    /\ req.website = <<>>
    /\ req.name # <<>>
    /\ ~EmailMatches(req.email)
    /\ TrimSpace(req.message) # <<>>

\* C15: the outbound message is determined by the site, the client address
\* and the name, email and message values; the encoding of the body (JSON
\* or form) that carried them leaves no trace in it, nor in the response.
C15_EncodingIndependent ==
    Ran("Deliver") =>
        LET cs == conf.Sites[SiteKeyOf(req)] IN
        /\ req.enc \in {"json", "form"}
        /\ mail.From = cs.FromAddr
        /\ mail.To = <<cs.To>>
        /\ mail.ReplyTo = <<req.name, req.email>>
        /\ mail.Subject = TrimSpace(cs.SubjectPrefix \o <<" ", "New contact">>)
        /\ mail.Text = [Site |-> SiteKeyOf(req), Name |-> req.name, Email |-> req.email,
                        IP |-> clientIP(req), Message |-> req.message]
        /\ Done => /\ resp.status = (IF loc.err THEN 500 ELSE 200)
                   /\ resp.body = (IF loc.err THEN "failed to send" ELSE "{\"ok\":true}")

\* a form submission whose message is escaped on the wire is delivered
\* with the message the client wrote
C15_Witness ==
    /\ Ran("Deliver")
    /\ req.enc = "form"
    /\ req.message = <<"+", " ", "\"">>
    /\ Body(req).message # req.message
    /\ mail.Text.Message = req.message

\* the allowed origins of the request's site, and whether Origin is one
OriginsOf(r) == conf.Sites[SiteKeyOf(r)].AllowedOrigins
OriginListed(r) == \E i \in 1..Len(OriginsOf(r)) : OriginsOf(r)[i] = r.origin
HasHeader(h) == h \in DOMAIN resp.header

WildcardListed(r) == \E i \in 1..Len(OriginsOf(r)) : OriginsOf(r)[i] = "*"

\* the request passes every check other than the origin's
OtherwiseValid(r) == FirstFailure(r) = 200

\* C17: when the site declares allowed origins and the request's Origin
\* matches none of them, an otherwise valid POST is answered 403 and the
\* sender is not invoked.
C17_UnlistedOriginForbidden ==
    (/\ Done
     /\ Ran("OriginPolicy")
     /\ Len(OriginsOf(req)) > 0
     /\ ~WildcardListed(req)
     /\ req.origin # ""
     /\ ~OriginListed(req)
     /\ OtherwiseValid(req)) => (resp.status = 403 /\ sends = 0)

\* C18: when the site's allowed origins contain "*", a POST with any Origin
\* is an origin match: the response carries a non-empty
\* Access-Control-Allow-Origin and an otherwise valid request is answered 200.
C18_WildcardMatchesAny ==
    (/\ Done
     /\ Ran("OriginPolicy")
     /\ WildcardListed(req)
     /\ req.origin # "") =>
        /\ HasHeader("Access-Control-Allow-Origin")
        /\ resp.header["Access-Control-Allow-Origin"] # ""
        /\ OtherwiseValid(req) => resp.status = 200

\* C19: an OPTIONS request is answered 204 with Access-Control-Allow-Methods
\* and Access-Control-Allow-Headers by the Preflight state and no other
\* state runs: the site key is not looked at, the bucket map and the count
\* of Allow calls are unchanged, the body is not read, nothing is sent.
C19_PreflightStops ==
    /\ []((Done /\ req.method = "OPTIONS") =>
             /\ resp.status = 204
             /\ resp.body = ""
             /\ resp.header = Put(Put(<<>>, "Access-Control-Allow-Methods", "POST, OPTIONS"),
                                  "Access-Control-Allow-Headers", "Content-Type, X-Signature")
             /\ trace = <<"Preflight">>
             /\ loc = NoLoc
             /\ sends = 0)
    /\ [][req.method = "OPTIONS" =>
             /\ buckets' = buckets
             /\ calls' = calls
             /\ stat' = stat
             /\ mails' = mails]_vars

\* a preflight for a malformed site key, after a request that made a bucket
C19_Witness ==
    /\ Done
    /\ req.method = "OPTIONS"
    /\ BadSiteKey(req)
    /\ resp.status = 204
    /\ buckets # <<>>

\* C20: for a POST the site key is the path after /v1/contact/: empty or
\* containing '/' is answered 400, a key that is not exactly a configured
\* key is answered 404, and an exact match goes on with the configuration
\* registered under that key.
C20_ExactTenantKey ==
    (req.method = "POST" /\ Ran("TenantResolution")) =>
        LET k == SubSeq(req.path, 2, Len(req.path)) IN
        /\ req.path[1] = "/v1/contact/"
        /\ (k = <<>> \/ \E i \in 1..Len(k) : k[i] = "/") =>
              /\ RejectedBy("TenantResolution")
              /\ resp.status = 400
              /\ resp.body = "bad site key"
        /\ (k # <<>> /\ (\A i \in 1..Len(k) : k[i] # "/") /\ k \notin DOMAIN conf.Sites) =>
              /\ RejectedBy("TenantResolution")
              /\ resp.status = 404
              /\ resp.body = "unknown site"
        /\ (k # <<>> /\ (\A i \in 1..Len(k) : k[i] # "/") /\ k \in DOMAIN conf.Sites) =>
              /\ ~RejectedBy("TenantResolution")
              /\ loc.cs = k
              /\ conf.Sites[loc.cs].Key = k
              /\ Ran("Deliver") => (mail.To = <<conf.Sites[k].To>> /\ mail.Text.Site = k)

\* a key that is a prefix of one configured key and extends another
C20_Witness ==
    /\ Done
    /\ req.method = "POST"
    /\ SiteKeyOf(req) = <<"a", "|">>
    /\ resp.status = 404
    /\ trace = <<"Preflight", "MethodCheck", "TenantResolution">>

\* the byte ceiling of the deployment
Ceiling == conf.MaxBodyKB * 1024

\* C21: of the admitted requests whose body is read without error, those
\* with at most Ceiling bytes are never answered 413 (a body of exactly
\* Ceiling bytes goes on to Authentication) and those with more are always
\* answered 413; never more than Ceiling + 1 bytes are read.
C21_BodyCeiling ==
    (Ran("BodyCapture") /\ ~req.readErr) =>
        /\ loc.allowed = "admitted"
        /\ loc.body <= Ceiling + 1
        /\ loc.body = Min(req.bodyLen, Ceiling + 1)
        /\ req.bodyLen <= Ceiling => ~RejectedBy("BodyCapture")
        /\ (Done /\ req.bodyLen <= Ceiling) => resp.status # 413
        /\ req.bodyLen > Ceiling =>
              (RejectedBy("BodyCapture") /\ resp.status = 413
                 /\ resp.body = "payload too large")

\* a body of exactly Ceiling bytes is delivered
C21_Witness ==
    /\ Done
    /\ req.bodyLen = Ceiling
    /\ resp.status = 200
    /\ sends = 1

\* a body longer than Ceiling + 1 bytes is cut at Ceiling + 1
C21_WitnessCut ==
    /\ Done
    /\ req.bodyLen > Ceiling + 1
    /\ loc.body = Ceiling + 1
    /\ resp.status = 413

\* the encoding the Content-Type header names
NamesJSON(r) == r.ct[1] = "application/json"
NamesForm(r) == r.ct[1] = "application/x-www-form-urlencoded"

\* C22: a request whose Content-Type names an encoding that is not enabled
\* is answered 415 and is not decoded with the other encoding; in
\* particular a JSON content type with JSON disabled is answered 415 even
\* when form decoding is enabled.
C22_DisabledEncodingUnsupported ==
    (Done /\ Ran("Decode")) =>
        /\ (NamesJSON(req) /\ ~conf.AllowJSON) =>
              (RejectedBy("Decode") /\ resp.status = 415)
        /\ (NamesForm(req) /\ ~conf.AllowForm) =>
              (RejectedBy("Decode") /\ resp.status = 415)

\* C23 (as stated): the client of a request during which a panic was raised
\* receives 500, wherever the panic occurred.
C23_PanicAnswered500 ==
    hpc = "recovered" => resp.status = 500

\* C23 (amended): a panic is caught by the middleware and the server goes
\* on to the next request with the limiter free; the client receives 500
\* when no status had been written for the request, and otherwise keeps
\* the response already written.
C23_PanicRecovered ==
    /\ [](hpc = "recovered" =>
             /\ resp.status # 0
             /\ bucketsMu = NoOwner
             /\ pc[Handler] = "idle")
    /\ [][hpc = "panic" =>
             /\ hpc' = "recovered"
             /\ resp.status = 0 => resp'.status = 500
             /\ resp.status # 0 => resp' = resp]_vars
    /\ [][hpc = "recovered" => (hpc' = "none" /\ buckets' = buckets /\ req' = NoReq)]_vars

\* a panic after the limiter admitted the request, answered 500, while an
\* earlier request had been served
C23_Witness ==
    /\ hpc = "recovered"
    /\ resp.status = 500
    /\ loc.allowed = "admitted"
    /\ served = 2
    /\ mails = 1

\* t is s without its leading and trailing spaces
IsTrimOf(t, s) ==
    /\ t = <<>> \/ (t[1] # " " /\ t[Len(t)] # " ")
    /\ \E i \in 0..Len(s) :
          /\ i + Len(t) <= Len(s)
          /\ SubSeq(s, i + 1, i + Len(t)) = t
          /\ \A j \in (1..i) \cup ((i + Len(t) + 1)..Len(s)) : s[j] = " "

\* e is the first comma-separated entry of s
IsFirstEntry(e, s) ==
    /\ \A i \in 1..Len(e) : e[i] # ","
    /\ Len(e) <= Len(s)
    /\ SubSeq(s, 1, Len(e)) = e
    /\ Len(s) > Len(e) => s[Len(e) + 1] = ","

\* h is the host part of the address host:port
IsHostOf(h, addr) ==
    /\ Len(addr) >= Len(h) + 1
    /\ SubSeq(addr, 1, Len(h)) = h
    /\ addr[Len(h) + 1] = ":"
    /\ \A i \in (Len(h) + 2)..Len(addr) : addr[i] # ":"

\* id is the client identity of request r
IsIdentityOf(id, r) ==
    IF r.xff # <<>>
    THEN \E n \in 0..Len(r.xff) : /\ IsFirstEntry(SubSeq(r.xff, 1, n), r.xff)
                                  /\ IsTrimOf(id, SubSeq(r.xff, 1, n))
    ELSE IsHostOf(id, r.remote)

\* C24: the client identity is the trimmed first entry of X-Forwarded-For
\* when the header is non-empty and the host of the peer address otherwise;
\* it is the subject handed to Allow together with the site key, so the
\* bucket used is the one of (site, identity) whatever the peer address,
\* and it is the IP written into the message.
C24_ClientIdentity ==
    (hpc # "none" /\ Ran("Admission")) =>
        /\ IsIdentityOf(loc.ip, req)
        /\ pc[Handler] # "idle" =>
              /\ frame[Handler].site = SiteKeyOf(req)
              /\ frame[Handler].ip = loc.ip
              /\ frame[Handler].key = BucketKey(SiteKeyOf(req), loc.ip)
        /\ loc.allowed # "unasked" =>
              BucketKey(SiteKeyOf(req), loc.ip) \in DOMAIN buckets
        /\ Ran("Deliver") => mail.Text.IP = loc.ip

\* a request forwarded for c through peer d is denied on the bucket that
\* requests from peer c used up
C24_Witness ==
    /\ Done
    /\ req.xff = <<"c">>
    /\ req.remote = <<"d", ":", "9">>
    /\ loc.ip = <<"c">>
    /\ resp.status = 429
    /\ DOMAIN buckets = {BucketKey(<<"a">>, <<"c">>)}

C26_DenyLeavesBucket ==
    /\ [](\A p \in Procs :
             (Returning(p) /\ frame[p].burst >= 1 /\ ~frame[p].ok) =>
                 /\ frame[p].pre # NoBucket
                 /\ frame[p].key \in DOMAIN buckets
                 /\ buckets[frame[p].key] = frame[p].pre)
    /\ [][\A p \in Procs :
             (pc[p] = "check" /\ pc'[p] = "unlock") => buckets' = buckets]_vars

\* a denial some ticks after the bucket's ts
C26_Witness ==
    \E p \in Procs :
        /\ Returning(p)
        /\ frame[p].burst >= 1
        /\ ~frame[p].ok
        /\ frame[p].now > frame[p].pre.ts
        /\ buckets[frame[p].key] = frame[p].pre

\* the (site, ip) pairs that have been admitted
PairsSeen == UNION { stat[k].pairs : k \in DOMAIN stat }

\* no step removes a bucket or puts a new bucket under an existing key, and
\* a step adds at most one key
BucketsPersist ==
    [][/\ DOMAIN buckets \subseteq DOMAIN buckets'
       /\ Cardinality(DOMAIN buckets') <= Cardinality(DOMAIN buckets) + 1
       /\ \A p \in Procs : pc[p] = "create" => frame[p].key \notin DOMAIN buckets]_vars

\* C27: a bucket once created exists in every later state, no step removes
\* or replaces one, and the set of keys grows by one key for each distinct
\* (site, ip) pair admitted for the first time: with no call in progress
\* there are as many buckets as pairs admitted.
C27_OneBucketPerPair ==
    /\ BucketsPersist
    /\ []((\A p \in Procs : pc[p] = "idle") =>
             Cardinality(DOMAIN buckets) = Cardinality(PairsSeen))

\* the request was answered by state st
AnsweredBy(st) == Done /\ Len(trace) > 0 /\ trace[Len(trace)] = st

\* C28: only the Admission state touches the bucket map.  A request
\* answered by Preflight, Method Check or Tenant Resolution never enters
\* Allow; the map and the count of Allow calls change only while a request
\* is in Admission; a request enters Allow at most once; and every bucket
\* key starts with a configured site key followed by '|'.
C28_OnlyAdmissionTouchesBuckets ==
    /\ [](/\ (AnsweredBy("Preflight") \/ AnsweredBy("MethodCheck")
                \/ AnsweredBy("TenantResolution")) =>
                  /\ resp.status \in {204, 405, 400, 404}
                  /\ ~Ran("Admission")
                  /\ loc.allowed = "unasked"
          /\ hpc # "Admission" => (pc[Handler] = "idle" /\ bucketsMu = NoOwner)
          /\ \A key \in DOMAIN buckets :
                \E site \in DOMAIN conf.Sites : HasPrefix(key, site \o <<"|">>))
    /\ [][/\ hpc # "Admission" => (buckets' = buckets /\ calls' = calls)
          /\ calls' # calls => (calls' = calls + 1 /\ ~Ran("Admission"))]_vars

\* an unknown site key answered 404 after another request made a bucket
C28_Witness ==
    /\ AnsweredBy("TenantResolution")
    /\ resp.status = 404
    /\ DOMAIN buckets = {BucketKey(<<"a">>, <<"c">>)}
    /\ calls = 1
    /\ served = 2

\* a finished call on an existing bucket refilled in whole units of I ticks
\* anchored to the bucket's ts: before one unit has elapsed no token is
\* added and ts stays; when ts moves it moves to the call's time
AnchoredRefill(p, I) ==
    LET f    == frame[p]
        post == buckets[f.key]
        took == IF f.ok THEN 1 ELSE 0
    IN  /\ (f.now - f.pre.ts < I) =>
              (post.ts = f.pre.ts /\ post.tokens + took = f.pre.tokens)
        /\ post.ts # f.pre.ts => post.ts = f.now

\* the refill as the code computes it: the unit is one minute
MinuteAnchoredRefill ==
    \A p \in Procs :
        (Returning(p) /\ frame[p].pre # NoBucket) => AnchoredRefill(p, TicksPerMinute)

\* C29: refill is anchored to the bucket's lastRefill and never partial.  A
\* call less than one whole refill interval (refillMins minutes) after
\* lastRefill adds no token and leaves lastRefill; a call that refills sets
\* lastRefill to its own time.
C29_WholeIntervalRefill ==
    \A p \in Procs :
        (Returning(p) /\ frame[p].pre # NoBucket) =>
            AnchoredRefill(p, frame[p].refillMins * TicksPerMinute)

\* C30: with one burst >= 0 for every call, every bucket holds between 0
\* and burst tokens in every reachable state.
C30_TokensWithinBurst ==
    \A k \in DOMAIN buckets :
        /\ 0 <= buckets[k].tokens
        /\ buckets[k].tokens <= conf.RateBurst

\* a call whose refill was cut at burst, and one that took the last token
C30_Witness ==
    \E p \in Procs :
        /\ Returning(p)
        /\ frame[p].pre # NoBucket
        /\ frame[p].ok
        /\ frame[p].burst >= 1
        /\ frame[p].pre.tokens
              + TruncDiv(frame[p].now - frame[p].pre.ts, TicksPerMinute) > frame[p].burst
        /\ buckets[frame[p].key].tokens = frame[p].burst - 1

C30_WitnessEmpty ==
    \E p \in Procs :
        /\ Returning(p)
        /\ frame[p].pre # NoBucket
        /\ frame[p].ok
        /\ frame[p].pre.tokens = 1
        /\ frame[p].now = frame[p].pre.ts
        /\ buckets[frame[p].key].tokens = 0

\* C31: now is sampled before the lock, so a call can reach the bucket with
\* a timestamp earlier than the bucket's ts.  No step lowers a bucket's ts,
\* and such a call adds no token and takes at most its own one.
C31_LastRefillMonotone ==
    /\ [](\A p \in Procs :
             (Returning(p) /\ frame[p].pre # NoBucket /\ frame[p].now < frame[p].pre.ts) =>
                 /\ buckets[frame[p].key].ts = frame[p].pre.ts
                 /\ buckets[frame[p].key].tokens = frame[p].pre.tokens - Bit(frame[p].ok))
    /\ [][\A k \in DOMAIN buckets :
             /\ k \in DOMAIN buckets'
             /\ buckets'[k].ts >= buckets[k].ts
             /\ buckets'[k].tokens > buckets[k].tokens =>
                   \E p \in Procs : /\ pc[p] = "refill"
                                     /\ frame[p].key = k
                                     /\ frame[p].now > buckets[k].ts]_vars

\* a call admitted on a bucket stamped a whole minute after the call's own time
C31_Witness ==
    \E p \in Procs :
        /\ Returning(p)
        /\ frame[p].pre # NoBucket
        /\ frame[p].pre.ts - frame[p].now >= TicksPerMinute
        /\ frame[p].ok

\* whole minutes between the creation of key k's bucket and the latest
\* timestamp of a call on k
MinutesSpanned(k) == TruncDiv(stat[k].latest - stat[k].created, TicksPerMinute)

\* C32: on every key, with one burst >= 0, at most burst + 1 + M calls are
\* admitted, M being the whole minutes between the bucket's creation time
\* and the latest timestamp of any call on the key.
C32_AdmitsBounded ==
    \A k \in DOMAIN stat :
        stat[k].admits <= conf.RateBurst + 1 + MinutesSpanned(k)

\* the bound is met after a refill: burst + 2 admitted over one whole minute
C32_Witness ==
    \E k \in DOMAIN stat :
        /\ conf.RateBurst >= 1
        /\ MinutesSpanned(k) = 1
        /\ stat[k].admits = conf.RateBurst + 2

====
